---- MODULE Spec2Model ----
(***************************************************************************)
(* A model of noaa-aurora: the cached remote JSON resource                 *)
(* (noaa_data_source.py), the time-indexed K-index feed (noaa_k_index.py), *)
(* the Ovation grid (noaa_ovation.py), the night window (util.py) and the  *)
(* aggregator (noaa_aurora.py).                                            *)
(*                                                                         *)
(* Times are seconds since the epoch.  A datetime of util.py is a record   *)
(* of local calendar fields.  A float is a fixed-point number of           *)
(* hundredths.  A Python value that may be None is a tagged record.        *)
(***************************************************************************)
EXTENDS Integers, Sequences, FiniteSets, TLC

VARIABLES
    now,            \* time.time(): the wall clock
    mtime,          \* os.path.getmtime(self._fpath)
    file,           \* content of the cache file (a JSON document)
    data,           \* self._data
    times,          \* self._times
    estimated_kps,  \* self._estimated_kps
    kps,            \* self._kps
    ovation,        \* NOAA_Ovation: _obs_time, _fx_time, _coords
    reading,        \* outcome of the last call on the Ovation feed
    result,         \* outcome of the last public call of this process
    fileAt,         \* history: when the payload in the cache file was downloaded
    origins,        \* history: per stored row, when its payload was downloaded
    attempts,       \* history: the HTTP requests issued so far
    clock,          \* util.now(): the local wall clock, as calendar fields
    window,         \* outcome of the last call of util.night
    aurora          \* NOAA_Aurora: visible_k_index and the last evaluation

vars == <<now, mtime, file, data, times, estimated_kps, kps, ovation, reading,
          result, fileAt, origins, attempts, clock, window, aurora>>

\* what the K-index feed and its cache leave alone
notFeed == <<ovation, reading, clock, window, aurora>>

-----------------------------------------------------------------------------
(* Bounds of the model *)

\* the clock starts here: later than the refresh interval after the epoch
StartNow == 7260
\* the clock advances in steps of ClockStep seconds
ClockStep == 900
\* number of clock steps explored
MaxTicks == 4
\* length of one reporting period of the served series, in seconds
Period == 900
\* a served payload holds 1..MaxRows data rows
MaxRows == 3
\* the newest row of a served payload lags the clock by 0..MaxLag periods
MaxLag == 1
\* a query asks about instants up to MaxBack clock steps before now
MaxBack == 2

Max(a, b) == IF a >= b THEN a ELSE b
Min(a, b) == IF a <= b THEN a ELSE b

-----------------------------------------------------------------------------
(* Python values *)

None == [tag |-> "None", v |-> <<>>]
Json(p) == [tag |-> "json", v |-> p]

\* datetime.strptime(x[0], NOAA_DT_FMT).replace(tzinfo=utc): the wire time tag
\* <<days since the epoch, seconds of the day>> as seconds since the epoch
strptime(tag) == tag[1] * 86400 + tag[2]

\* the wire form of the instant t
TimeTag(t) == <<t \div 86400, t % 86400>>

\* float(x[1]) on the wire strings the model serves, in hundredths
float(s) ==
    CASE s = "0.33" -> 33
      [] s = "2.67" -> 267
      [] s = "5.00" -> 500
      [] s = "6.33" -> 633

EstStrings == <<"0.33", "2.67", "5.00", "6.33">>
KpCodes == <<"0Z", "3M", "5P", "6Z">>

\* a[lo:hi] of Python, on a list held as a 1-based sequence
PySlice(a, lo, hi) ==
    LET n == Len(a)
        norm(x) == IF x < 0 THEN Max(x + n, 0) ELSE Min(x, n)
        l == norm(lo)
        h == norm(hi)
    IN  IF l >= h THEN <<>> ELSE SubSeq(a, l + 1, h)

-----------------------------------------------------------------------------
(* noaa_data_source.py *)

DEFAULT_REFRESH_S == 60 * 30

\* needs_update, for a cache file that exists (the constructor creates it and
\* nothing removes it)
needs_update(mt, t) == t - mt > DEFAULT_REFRESH_S

\* touch_file: the modification time after os.utime(fpath, (now, now))
touch_file_skipped(mt, t) == mt
touch_file(mt, t) == t

\* download(): net is the outcome of requests.get, [ok |-> BOOLEAN, json |-> payload]
download(mt, f, d, t, net) ==
    LET touched == touch_file(mt, t)
    IN  IF ~net.ok
        THEN [err |-> net.err, mtime |-> touched, file |-> f, data |-> d]
        ELSE \* self._data = json.loads(response.text); save_data_to_file()
             [err |-> "", mtime |-> t, file |-> Json(net.json), data |-> Json(net.json)]

\* load_data_from_file()
load_data_from_file(f) == f

-----------------------------------------------------------------------------
(* noaa_k_index.py: NOAA_K_Index_1_Minute.parse_data *)

Header1Min == <<"time_tag", "estimated_kp", "kp">>

RECURSIVE ParseRows(_, _, _)
ParseRows(rows, k, acc) ==
    IF k > Len(rows) THEN acc
    ELSE ParseRows(rows, k + 1,
            [times |-> Append(acc.times, strptime(rows[k][1])),
             estimated_kps |-> Append(acc.estimated_kps, float(rows[k][2])),
             kps |-> Append(acc.kps, rows[k][3])])

\* parse_data(): appends one entry per data row to the lists it is given
parse_data(d, ts, es, ks) ==
    IF d.tag = "None"
    THEN [err |-> "TypeError", times |-> ts, estimated_kps |-> es, kps |-> ks]
    ELSE IF d.v[1] # Header1Min
    THEN [err |-> "AssertionError", times |-> ts, estimated_kps |-> es, kps |-> ks]
    ELSE LET r == ParseRows(Tail(d.v), 1,
                     [times |-> ts, estimated_kps |-> es, kps |-> ks])
         IN  [err |-> "", times |-> r.times, estimated_kps |-> r.estimated_kps,
              kps |-> r.kps]

\* lazy_get() of the 1-minute feed: the state it leaves, the error it raised
\* ("" for none), whether it issued a request and whether it parsed
lazy_get(net) ==
    LET same == [err |-> "", mtime |-> mtime, file |-> file, data |-> data,
                 times |-> times, estimated_kps |-> estimated_kps, kps |-> kps,
                 requested |-> FALSE, parsedFrom |-> -1]
    IN  IF needs_update(mtime, now)
        THEN LET d == download(mtime, file, data, now, net)
                 p == parse_data(d.data, times, estimated_kps, kps)
             IN  IF d.err # ""
                 THEN [same EXCEPT !.err = d.err, !.mtime = d.mtime,
                                   !.requested = TRUE]
                 ELSE [err |-> p.err, mtime |-> d.mtime, file |-> d.file,
                       data |-> d.data, times |-> p.times,
                       estimated_kps |-> p.estimated_kps, kps |-> p.kps,
                       requested |-> TRUE,
                       parsedFrom |-> IF p.err = "" THEN now ELSE -1]
        ELSE IF data.tag = "None"
        THEN LET d == load_data_from_file(file)
                 p == parse_data(d, times, estimated_kps, kps)
             IN  [same EXCEPT !.err = p.err, !.data = d, !.times = p.times,
                              !.estimated_kps = p.estimated_kps, !.kps = p.kps,
                              !.parsedFrom = IF p.err = "" THEN fileAt ELSE -1]
        ELSE same

-----------------------------------------------------------------------------
(* noaa_k_index.py: NOAA_Space_Weather_Data_Source *)

\* duration: self._times[1] - self._times[0]
duration(ts) == ts[2] - ts[1]

\* _i: the 0-based index of the first period holding u, scanning from the
\* 1-based position k; the chained comparison reads duration only when
\* t <= u, and duration raises IndexError on fewer than two times
RECURSIVE scan(_, _, _)
scan(ts, u, k) ==
    IF k > Len(ts) THEN [err |-> "OutOfRange", i |-> -1]
    ELSE IF ts[k] <= u
         THEN IF Len(ts) < 2 THEN [err |-> "IndexError", i |-> -1]
              ELSE IF u < ts[k] + duration(ts) THEN [err |-> "", i |-> k - 1]
              ELSE scan(ts, u, k + 1)
         ELSE scan(ts, u, k + 1)

_i(ts, u) == scan(ts, u, 1)

\* the index returned for the "latest" end: Python's -2
LatestIndexIsLast == 0 - 1
LatestIndex == 0 - 2

\* _index: q is [kind |-> "single" | "range" | "latest", t0, t1]
_index(ts, q) ==
    LET i0 == _i(ts, q.t0)
        i1 == _i(ts, q.t1)
    IN  CASE q.kind = "latest" ->
               IF i0.err # "" THEN [err |-> i0.err, a |-> 0, b |-> 0]
               ELSE [err |-> "", a |-> i0.i, b |-> LatestIndex]
          [] q.kind = "range" ->
               IF i0.err # "" THEN [err |-> i0.err, a |-> 0, b |-> 0]
               ELSE IF i1.err # "" THEN [err |-> i1.err, a |-> 0, b |-> 0]
               ELSE [err |-> "", a |-> i0.i, b |-> i1.i]
          [] q.kind = "single" ->
               IF i0.err # "" THEN [err |-> i0.err, a |-> 0, b |-> 0]
               ELSE [err |-> "", a |-> i0.i, b |-> i0.i]

\* single_or_list: a scalar is held as kind "scalar" with val = <<a[0]>>
single_or_list(a) ==
    IF Len(a) = 1 THEN [kind |-> "scalar", val |-> <<a[1]>>]
    ELSE [kind |-> "list", val |-> a]

\* getattr(self, which)[a:b + 1]
FieldSliceExclusive(field, a, b) == PySlice(field, a, b)
FieldSlice(field, a, b) == PySlice(field, a, b + 1)

Fields == {"_times", "_estimated_kps", "_kps"}

NoQuery == [kind |-> "none", t0 |-> 0, t1 |-> 0]
NoResult == [op |-> "none", which |-> "", q |-> NoQuery, kind |-> "none",
             err |-> "", val |-> <<>>, a |-> 0, b |-> 0, from |-> <<>>,
             at |-> 0, stale |-> FALSE]

\* _get_data(which, utc_datetime) after lazy_get left state g: the outcome
_get_data(g, orig, which, q) ==
    LET ix == _index(g.times, q)
        field == CASE which = "_times" -> g.times
                   [] which = "_estimated_kps" -> g.estimated_kps
                   [] which = "_kps" -> g.kps
        r == single_or_list(FieldSlice(field, ix.a, ix.b))
        base == [NoResult EXCEPT !.op = "get", !.which = which, !.q = q,
                                 !.at = now,
                                 !.stale = needs_update(mtime, now)]
    IN  IF g.err # "" THEN [base EXCEPT !.kind = "raise", !.err = g.err]
        ELSE IF ix.err # "" THEN [base EXCEPT !.kind = "raise", !.err = ix.err]
        ELSE [base EXCEPT !.kind = r.kind, !.val = r.val, !.a = ix.a,
                          !.b = ix.b,
                          !.from = FieldSlice(orig, ix.a, ix.b)]

-----------------------------------------------------------------------------
(* The remote 1-minute feed: what a request may be answered with *)

\* the data row of the period starting at t, as served at time at (estimates
\* are revised from one download to the next)
Row(t, at) ==
    LET k == (((t \div Period) + (at \div ClockStep)) % 4) + 1
    IN  <<TimeTag(t), EstStrings[k], KpCodes[k]>>

\* a payload of n rows whose newest period starts at last
Payload(last, n, at) ==
    <<Header1Min>> \o [k \in 1..n |-> Row(last - (n - k) * Period, at)]

\* the payloads the server may answer with at time t
Served(t) ==
    { Payload(((t \div Period) - lag) * Period, n, t) :
        lag \in 0..MaxLag, n \in 1..MaxRows }

NoNet == [ok |-> FALSE, err |-> "unused", json |-> <<>>]

\* the outcomes of requests.get at time t
NetOutcomes(t) ==
    { [ok |-> TRUE, err |-> "", json |-> p] : p \in Served(t) }
    \cup { [ok |-> FALSE, err |-> e, json |-> <<>>] :
             e \in {"ConnectionError", "DownloadError"} }

\* the network is reached only by a lazy_get that finds the cache stale
NetIfStale == IF needs_update(mtime, now) THEN NetOutcomes(now) ELSE {NoNet}

\* the instants a caller asks about
QueryTimes(t) == { t - k * ClockStep : k \in 0..MaxBack }

Singles(t) == { [kind |-> "single", t0 |-> a, t1 |-> a] : a \in QueryTimes(t) }
Ranges(t) ==
    { [kind |-> "range", t0 |-> a, t1 |-> b] :
        a \in QueryTimes(t), b \in QueryTimes(t) }
Latests(t) == { [kind |-> "latest", t0 |-> a, t1 |-> a] : a \in QueryTimes(t) }

-----------------------------------------------------------------------------
(* noaa_aurora.py: highest_recent_kp *)

RecentMinutes == 60

RECURSIVE MaxOf(_)
MaxOf(a) == IF Len(a) = 1 THEN a[1] ELSE Max(a[1], MaxOf(Tail(a)))

\* max(r) of Python on what estimated_kp returned
highest_recent_kp(r) ==
    IF r.kind = "raise" THEN r
    ELSE IF r.kind = "scalar"
    THEN [r EXCEPT !.kind = "raise", !.err = "TypeError", !.val = <<>>]
    ELSE IF r.val = <<>>
    THEN [r EXCEPT !.kind = "raise", !.err = "ValueError"]
    ELSE [r EXCEPT !.kind = "scalar", !.val = <<MaxOf(r.val)>>]

-----------------------------------------------------------------------------
(* The 1-minute feed and its cache as a state machine *)

\* the parts of the program a specification does not exercise
IdleOvation ==
    /\ ovation = "none"
    /\ reading = "none"
IdleNight ==
    /\ clock = "unset"
    /\ window = "none"
IdleAurora == aurora = "none"

InitOther == IdleOvation /\ IdleNight /\ IdleAurora

\* after NOAA_K_Index_1_Minute(): no cache file existed, so one holding
\* json.dumps(None) was written and its modification time set to the epoch
InitFeed ==
    /\ now = StartNow
    /\ mtime = 0
    /\ file = None
    /\ data = None
    /\ times = <<>>
    /\ estimated_kps = <<>>
    /\ kps = <<>>
    /\ result = NoResult
    /\ fileAt = -1
    /\ origins = <<>>
    /\ attempts = <<>>
    /\ InitOther

\* time passes
Tick ==
    /\ now < StartNow + MaxTicks * ClockStep
    /\ now' = now + ClockStep
    /\ UNCHANGED <<mtime, file, data, times, estimated_kps, kps, result,
                   fileAt, origins, attempts, notFeed>>

\* the state lazy_get leaves, with its history
AfterLazyGet(g) ==
    /\ mtime' = g.mtime
    /\ file' = g.file
    /\ data' = g.data
    /\ times' = g.times
    /\ estimated_kps' = g.estimated_kps
    /\ kps' = g.kps
    /\ fileAt' = IF g.requested /\ g.data # data THEN now ELSE fileAt
    /\ origins' = IF g.parsedFrom = -1 THEN origins
                  ELSE origins \o [k \in 1..(Len(g.times) - Len(times)) |->
                                      g.parsedFrom]
    /\ attempts' = IF g.requested
                   THEN Append(attempts,
                               [at |-> now, stale |-> needs_update(mtime, now),
                                ok |-> g.data # data])
                   ELSE attempts

\* estimated_kp(utc_datetime) and estimated_kp([utc_datetime, "latest"])
EstimatedKp ==
    \E q \in Singles(now) \cup Latests(now), net \in NetIfStale :
        LET g == lazy_get(net)
        IN  /\ AfterLazyGet(g)
            /\ result' = _get_data(g, origins', "_estimated_kps", q)
            /\ UNCHANGED <<now, notFeed>>

\* NOAA_Aurora.highest_recent_kp
HighestRecentKp ==
    \E net \in NetIfStale :
        LET g == lazy_get(net)
            start == now - RecentMinutes * 60
            q == [kind |-> "latest", t0 |-> start, t1 |-> start]
        IN  /\ AfterLazyGet(g)
            /\ result' = [highest_recent_kp(
                              _get_data(g, origins', "_estimated_kps", q))
                          EXCEPT !.op = "highest_recent_kp"]
            /\ UNCHANGED <<now, notFeed>>

\* the process ends and a new one constructs the feed on the same cache file
Restart ==
    /\ data' = None
    /\ times' = <<>>
    /\ estimated_kps' = <<>>
    /\ kps' = <<>>
    /\ origins' = <<>>
    /\ result' = NoResult
    /\ UNCHANGED <<now, mtime, file, fileAt, attempts, notFeed>>

NextFeed == Tick \/ EstimatedKp \/ HighestRecentKp \/ Restart

SpecFeed == InitFeed /\ [][NextFeed]_vars

-----------------------------------------------------------------------------
(* Properties of the cache and the 1-minute feed, under SpecFeed *)

IsValue(r) == r.kind \in {"scalar", "list"}
NetworkErrors == {"ConnectionError", "DownloadError"}

\* the 1-based positions of ts whose period holds u
Covering(ts, u) ==
    { k \in 1..Len(ts) : ts[k] <= u /\ u < ts[k] + (ts[2] - ts[1]) }

\* the first of them
FirstCovering(ts, u) ==
    CHOOSE k \in Covering(ts, u) : \A j \in Covering(ts, u) : k <= j

StrictlyAscending(ts) == \A k \in 1..(Len(ts) - 1) : ts[k] < ts[k + 1]

\* C1: every HTTP request was issued by a lazy_get that found needs_update
\* true; two successive requests, whatever the outcome of the first, are more
\* than refresh_s apart; and from a download attempt on, needs_update stays
\* false until refresh_s seconds have passed.
C1_OneRequestPerInterval ==
    /\ \A k \in 1..Len(attempts) : attempts[k].stale
    /\ \A k \in 1..(Len(attempts) - 1) :
           attempts[k + 1].at - attempts[k].at > DEFAULT_REFRESH_S
    /\ (attempts # <<>> /\ now - attempts[Len(attempts)].at <= DEFAULT_REFRESH_S)
           => ~needs_update(mtime, now)

\* a failed download was followed, an interval later, by a second request
C1_Witness ==
    /\ Len(attempts) >= 2
    /\ ~attempts[1].ok
    /\ now > attempts[Len(attempts)].at

\* C2: once a payload is held, the timestamp list is strictly ascending, has
\* one entry per data row of the payload loaded last, and every field list
\* is as long as it.
C2_OneEntryPerRow ==
    data.tag = "json" =>
        /\ StrictlyAscending(times)
        /\ Len(times) = Len(data.v) - 1
        /\ Len(estimated_kps) = Len(times)
        /\ Len(kps) = Len(times)

\* C8: when now - 60 min lies in the stored series, at a reading i up to the
\* second-to-last one, and no download failed, highest_recent_kp returns the
\* largest estimated Kp of the readings i .. second-to-last.
C8_HighestRecent ==
    LET start == result.at - RecentMinutes * 60
        n == Len(times)
        i == FirstCovering(times, start)
    IN  (/\ result.op = "highest_recent_kp"
         /\ result.err \notin NetworkErrors
         /\ n >= 2
         /\ Covering(times, start) # {}
         /\ i <= n - 1)
        => /\ result.kind = "scalar"
           /\ result.val = <<MaxOf(SubSeq(estimated_kps, i, n - 1))>>

\* C10: every value a query returns comes from a payload whose download
\* completed at most refresh_s seconds before the query.
C10_ServedFresh ==
    IsValue(result) =>
        \A k \in 1..Len(result.from) :
            result.at - result.from[k] <= DEFAULT_REFRESH_S

-----------------------------------------------------------------------------
(* The time-indexed queries on a loaded feed: inputs drawn at Init *)

\* the lists after the payloads ps were parsed one after the other
RECURSIVE ParsedAll(_, _)
ParsedAll(ps, acc) ==
    IF ps = <<>> THEN acc
    ELSE ParsedAll(Tail(ps),
                   parse_data(Json(Head(ps)), acc.times, acc.estimated_kps,
                              acc.kps))

\* a feed that downloaded one payload just now, or one at StartNow and a
\* second one just now, MaxTicks clock steps later
InitIndex ==
    \E p1 \in Served(StartNow), twice \in BOOLEAN,
       p2 \in Served(StartNow + MaxTicks * ClockStep) :
        LET t2 == StartNow + MaxTicks * ClockStep
            ps == IF twice THEN <<p1, p2>> ELSE <<p1>>
            r == ParsedAll(ps, [err |-> "", times |-> <<>>,
                                estimated_kps |-> <<>>, kps |-> <<>>])
        IN  /\ now = IF twice THEN t2 ELSE StartNow
            /\ mtime = now
            /\ file = Json(ps[Len(ps)])
            /\ data = Json(ps[Len(ps)])
            /\ times = r.times
            /\ estimated_kps = r.estimated_kps
            /\ kps = r.kps
            /\ result = NoResult
            /\ fileAt = now
            /\ origins = [k \in 1..Len(r.times) |->
                            IF k <= Len(p1) - 1 THEN StartNow ELSE t2]
            /\ attempts = [k \in 1..Len(ps) |->
                             [at |-> IF k = 1 THEN StartNow ELSE t2,
                              stale |-> TRUE, ok |-> TRUE]]
            /\ InitOther

\* forecast_time / estimated_kp / kp, for an instant, a range or
\* [instant, "latest"]
GetData ==
    \E which \in Fields, q \in Singles(now) \cup Ranges(now) \cup Latests(now),
       net \in NetIfStale :
        LET g == lazy_get(net)
        IN  /\ AfterLazyGet(g)
            /\ result' = _get_data(g, origins', which, q)
            /\ UNCHANGED <<now, notFeed>>

NextIndex == GetData

SpecIndex == InitIndex /\ [][NextIndex]_vars

FieldOf(which) ==
    CASE which = "_times" -> times
      [] which = "_estimated_kps" -> estimated_kps
      [] which = "_kps" -> kps

\* C3: with at least two stored timestamps, a query for one instant t returns
\* the scalar at the first index whose period holds t; a query for a range
\* resolving to a <= b returns the values a..b in order, a list of b-a+1
\* values when b > a and the bare value when b = a; an instant that no
\* period holds fails with the out-of-range error.
C3_QueryResolves ==
    (result.op = "get" /\ Len(times) >= 2) =>
        LET q == result.q
            field == FieldOf(result.which)
            none0 == Covering(times, q.t0) = {}
            none1 == Covering(times, q.t1) = {}
            a == FirstCovering(times, q.t0)
            b == FirstCovering(times, q.t1)
            outOfRange == result.kind = "raise" /\ result.err = "OutOfRange"
        IN  CASE q.kind = "single" ->
                   IF none0 THEN outOfRange
                   ELSE result.kind = "scalar" /\ result.val = <<field[a]>>
              [] q.kind = "range" ->
                   IF none0 \/ none1 THEN outOfRange
                   ELSE /\ a < b => /\ result.kind = "list"
                                    /\ result.val = SubSeq(field, a, b)
                                    /\ Len(result.val) = b - a + 1
                        /\ a = b => /\ result.kind = "scalar"
                                    /\ result.val = <<field[a]>>
              [] q.kind = "latest" -> none0 => outOfRange

\* a range query that spanned three periods returned a list of three values
C3_Witness ==
    /\ result.op = "get"
    /\ result.q.kind = "range"
    /\ result.kind = "list"
    /\ Len(result.val) = 3

\* C4 as claimed: with n stored points, [t, "latest"] for any t resolving to
\* an index i returns the values at i .. n-2, the one at n-2 among them and
\* the one at n-1 not.
C4_LatestAsClaimed ==
    LET q == result.q
        field == FieldOf(result.which)
        n == Len(times)
        i == FirstCovering(times, q.t0)
    IN  (/\ result.op = "get"
         /\ q.kind = "latest"
         /\ n >= 2
         /\ Covering(times, q.t0) # {})
        => /\ IsValue(result)
           /\ result.a = i - 1
           /\ (IF result.b < 0 THEN result.b + n ELSE result.b) = n - 2
           /\ result.val = SubSeq(field, i, n - 1)
           /\ Len(result.val) >= 1

\* C4 as amended: the same for every i up to n-2; for i = n-1, the last
\* index, the result is the empty list.
C4_LatestAmended ==
    LET q == result.q
        field == FieldOf(result.which)
        n == Len(times)
        i == FirstCovering(times, q.t0)
    IN  (/\ result.op = "get"
         /\ q.kind = "latest"
         /\ n >= 2
         /\ Covering(times, q.t0) # {})
        => /\ IsValue(result)
           /\ result.a = i - 1
           /\ (IF result.b < 0 THEN result.b + n ELSE result.b) = n - 2
           /\ result.val = SubSeq(field, i, n - 1)
           /\ i <= n - 1 => Len(result.val) = n - i
           /\ i = n => result.kind = "list" /\ result.val = <<>>

\* [t, "latest"] with t two periods before the second-to-last one
C4_Witness ==
    /\ result.op = "get"
    /\ result.q.kind = "latest"
    /\ result.kind = "list"
    /\ Len(result.val) >= 2
    /\ Len(times) > Len(result.val) + result.a

-----------------------------------------------------------------------------
(* util.py: the night window *)

NIGHT_BEGIN_HOUR == 17
NIGHT_END_HOUR == 4

\* days of local time explored
MaxDay == 2
\* night(day_offset) is called with day_offset in 0..MaxDayOffset
MaxDayOffset == 1

\* a tz-aware datetime: local calendar fields and the UTC offset, in minutes,
\* of its tzinfo.  The tzinfo that localize() attached to now() is kept by
\* replace() and by timedelta arithmetic.
Minutes == {0, 59}
UtcOffsets == {0 - 420, 0, 330}

\* dt + datetime.timedelta(days=n)
plus_days(dt, n) == [dt EXCEPT !.day = @ + n]

\* dt.astimezone(datetime.timezone.utc)
astimezone_utc(dt) ==
    LET m == (dt.day * 24 + dt.hour) * 60 + dt.minute - dt.utcoffset
    IN  [day |-> m \div 1440, hour |-> (m % 1440) \div 60, minute |-> m % 60,
         utcoffset |-> 0]

\* h.hour < NIGHT_END_HOUR: it is not "morning" yet
not_morning_yet_inclusive(h) == h.hour <= NIGHT_END_HOUR
not_morning_yet(h) == h.hour < NIGHT_END_HOUR

\* night(day_offset) when now() returns c
night(c, day_offset) ==
    LET h == plus_days([c EXCEPT !.minute = 0], day_offset)
        x == IF not_morning_yet(h) THEN plus_days(h, 0 - 1) ELSE h
        y == IF not_morning_yet(h) THEN h ELSE plus_days(h, 1)
        begin == [x EXCEPT !.hour = NIGHT_BEGIN_HOUR]
        end == [y EXCEPT !.hour = NIGHT_END_HOUR]
    IN  [begin |-> astimezone_utc(begin), end |-> astimezone_utc(end)]

NoWindow ==
    [op |-> "none", day_offset |-> 0,
     at |-> [day |-> 0, hour |-> 0, minute |-> 0, utcoffset |-> 0],
     begin |-> [day |-> 0, hour |-> 0, minute |-> 0, utcoffset |-> 0],
     end |-> [day |-> 0, hour |-> 0, minute |-> 0, utcoffset |-> 0]]

IdleFeed ==
    /\ now = 0
    /\ mtime = 0
    /\ file = None
    /\ data = None
    /\ times = <<>>
    /\ estimated_kps = <<>>
    /\ kps = <<>>
    /\ result = NoResult
    /\ fileAt = -1
    /\ origins = <<>>
    /\ attempts = <<>>

feedVars == <<now, mtime, file, data, times, estimated_kps, kps, result,
              fileAt, origins, attempts>>

InitNight ==
    /\ \E m \in Minutes, off \in UtcOffsets :
           clock = [day |-> 1, hour |-> 0, minute |-> m, utcoffset |-> off]
    /\ window = NoWindow
    /\ IdleFeed /\ IdleOvation /\ IdleAurora

\* an hour of local time passes
HourPasses ==
    /\ clock.day < MaxDay \/ clock.hour < 23
    /\ clock' = IF clock.hour = 23
                THEN [clock EXCEPT !.day = @ + 1, !.hour = 0]
                ELSE [clock EXCEPT !.hour = @ + 1]
    /\ UNCHANGED <<window, feedVars, ovation, reading, aurora>>

\* util.night(day_offset)
Night ==
    \E day_offset \in 0..MaxDayOffset :
        LET w == night(clock, day_offset)
        IN  /\ window' = [op |-> "night", day_offset |-> day_offset,
                          at |-> clock, begin |-> w.begin, end |-> w.end]
            /\ UNCHANGED <<clock, feedVars, ovation, reading, aurora>>

NextNight == HourPasses \/ Night

SpecNight == InitNight /\ [][NextNight]_vars

\* the instant of a datetime, in minutes of UTC
Instant(dt) == (dt.day * 24 + dt.hour) * 60 + dt.minute - dt.utcoffset

\* the instant of hh:00 local time on day d, at the UTC offset off
LocalHour(d, hh, off) == (d * 24 + hh) * 60 - off

\* C9: with H the local hour of the call and D its local day plus day_offset,
\* night returns two UTC datetimes: 17:00 of D-1 and 04:00 of D when H < 4,
\* 17:00 of D and 04:00 of D+1 otherwise; the first is earlier than the second.
C9_NightWindow ==
    window.op = "night" =>
        LET H == window.at.hour
            D == window.at.day + window.day_offset
            off == window.at.utcoffset
        IN  /\ window.begin.utcoffset = 0 /\ window.end.utcoffset = 0
            /\ window.begin.hour \in 0..23 /\ window.begin.minute \in 0..59
            /\ window.end.hour \in 0..23 /\ window.end.minute \in 0..59
            /\ H < 4 => /\ Instant(window.begin) = LocalHour(D - 1, 17, off)
                        /\ Instant(window.end) = LocalHour(D, 4, off)
            /\ H >= 4 => /\ Instant(window.begin) = LocalHour(D, 17, off)
                         /\ Instant(window.end) = LocalHour(D + 1, 4, off)
            /\ Instant(window.begin) < Instant(window.end)

\* night(1) called at 03:59 local time, east of Greenwich
C9_Witness ==
    /\ window.op = "night"
    /\ window.at.hour = 3
    /\ window.at.minute = 59
    /\ window.day_offset = 1
    /\ window.at.utcoffset = 330

-----------------------------------------------------------------------------
(* noaa_aurora.py: NOAA_Aurora.__init__ and visible_tonight *)

\* Kp values are hundredths: the forecast Kp is an integer 0..MaxKp
MaxKp == 9

\* the visible_k_index argument: None, or a number (in hundredths)
ThresholdArgs ==
    {None} \cup { [tag |-> "num", v |-> x] : x \in {0, 250, 500, 633, 900} }

\* __init__: self.visible_k_index
NOAA_Aurora_init(visible_k_index) ==
    IF visible_k_index.tag = "None" THEN 5 * 100 ELSE visible_k_index.v

\* what evaluating highest_kp_tonight or highest_recent_kp may give
Raised == [kind |-> "raise", v |-> 0]
TonightOutcomes ==
    {Raised} \cup { [kind |-> "value", v |-> k * 100] : k \in 0..MaxKp }
RecentOutcomes ==
    {Raised} \cup { [kind |-> "value", v |-> x] : x \in {33, 267, 500, 600, 633} }

\* visible_tonight: Python's "or" reads highest_recent_kp only when the
\* first comparison is false
visible_tonight_at_least(threshold, tonight, recent) ==
    IF tonight.kind = "raise" THEN [kind |-> "raise", val |-> FALSE]
    ELSE IF tonight.v >= threshold THEN [kind |-> "value", val |-> TRUE]
    ELSE IF recent.kind = "raise" THEN [kind |-> "raise", val |-> FALSE]
    ELSE [kind |-> "value", val |-> recent.v >= threshold]
visible_tonight(threshold, tonight, recent) ==
    IF tonight.kind = "raise" THEN [kind |-> "raise", val |-> FALSE]
    ELSE IF tonight.v > threshold THEN [kind |-> "value", val |-> TRUE]
    ELSE IF recent.kind = "raise" THEN [kind |-> "raise", val |-> FALSE]
    ELSE [kind |-> "value", val |-> recent.v > threshold]

InitAurora ==
    /\ \E arg \in ThresholdArgs :
           aurora = [arg |-> arg, visible_k_index |-> NOAA_Aurora_init(arg),
                     op |-> "none", tonight |-> Raised, recent |-> Raised,
                     kind |-> "none", val |-> FALSE]
    /\ IdleFeed /\ IdleOvation /\ IdleNight

\* the visible_tonight property
VisibleTonight ==
    \E tonight \in TonightOutcomes, recent \in RecentOutcomes :
        LET r == visible_tonight(aurora.visible_k_index, tonight, recent)
        IN  /\ aurora' = [aurora EXCEPT !.op = "visible_tonight",
                                        !.tonight = tonight, !.recent = recent,
                                        !.kind = r.kind, !.val = r.val]
            /\ UNCHANGED <<feedVars, ovation, reading, clock, window>>

NextAurora == VisibleTonight

SpecAurora == InitAurora /\ [][NextAurora]_vars

-----------------------------------------------------------------------------
(* noaa_ovation.py *)

\* Latitudes and longitudes of a query are tenths of a degree; those of a
\* grid sample are whole degrees.

\* int(round(x)) of Python 3: to the nearest integer, a tie to the even one
py_round(x) ==
    LET q == x \div 10
        r == x % 10
    IN  IF r < 5 THEN q
        ELSE IF r > 5 THEN q + 1
        ELSE IF q % 2 = 0 THEN q ELSE q + 1

\* The "coordinates" list of a payload is either written out,
\* [kind |-> "list", samples |-> <<<<lon, lat, aurora>>, ...>>], or the full
\* 1-degree grid in the order NOAA serves it, [kind |-> "grid", v |-> n]:
\* longitudes 0..359, for each the latitudes -90..90, with the intensity
\* GridAurora(n, lon, lat).
GridLons == 0..359
GridLats == (0 - 90)..90
GridAurora(v, wlon, lat) == (3 * (lat + 90) + wlon + 7 * v) % 101
GridPosition(wlon, lat) == wlon * 181 + (lat + 90) + 1

\* if x[0] >= 180: x[0] -= 360
normalize_lon(x) == IF x >= 180 THEN x - 360 ELSE x

\* the loop of parse_data over one "coordinates" list
normalized(c) ==
    IF c.kind = "grid" THEN [kind |-> "grid", v |-> c.v, samples |-> <<>>]
    ELSE [kind |-> "list", v |-> 0,
          samples |-> [k \in 1..Len(c.samples) |->
                         <<normalize_lon(c.samples[k][1]), c.samples[k][2],
                           c.samples[k][3]>>]]

Zero == [tag |-> "zero", v |-> <<>>]

\* parse_data(): appends the normalized samples to _coords, drops the payload
ov_parse_data(d, ov) ==
    IF d.tag # "json"
    THEN [err |-> "TypeError", ovation |-> ov, data |-> d]
    ELSE [err |-> "",
          ovation |-> [obs_time |-> strptime(d.v.ObservationTime),
                       fx_time |-> strptime(d.v.ForecastTime),
                       coords |-> Append(ov.coords,
                                         normalized(d.v.coordinates))],
          data |-> Zero]

\* lazy_get() of the Ovation feed
ov_lazy_get(net) ==
    LET same == [err |-> "", mtime |-> mtime, file |-> file, data |-> data,
                 ovation |-> ovation]
    IN  IF needs_update(mtime, now)
        THEN LET d == download(mtime, file, data, now, net)
                 p == ov_parse_data(d.data, ovation)
             IN  IF d.err # ""
                 THEN [same EXCEPT !.err = d.err, !.mtime = d.mtime]
                 ELSE [err |-> p.err, mtime |-> d.mtime, file |-> d.file,
                       data |-> p.data, ovation |-> p.ovation]
        ELSE IF data.tag = "None"
        THEN LET d == load_data_from_file(file)
                 p == ov_parse_data(d, ovation)
             IN  [same EXCEPT !.err = p.err, !.data = p.data,
                              !.ovation = p.ovation]
        ELSE same

RECURSIVE Ascending(_)
Ascending(S) ==
    IF S = {} THEN <<>>
    ELSE LET m == CHOOSE x \in S : \A y \in S : x <= y
         IN  <<m>> \o Ascending(S \ {m})

\* the intensities, in storage order, of the samples of one stored chunk whose
\* int(latitude) is in lats and int(longitude) in lons.  For the full grid the
\* scan is computed over the only samples that can match.
MatchesIn(chunk, lats, lons) ==
    IF chunk.kind = "list"
    THEN LET hit(c) == c[2] \in lats /\ c[1] \in lons
             kept == SelectSeq(chunk.samples, hit)
         IN  [k \in 1..Len(kept) |-> kept[k][3]]
    ELSE LET cells == { <<w, la>> \in
                          { IF m < 0 THEN m + 360 ELSE m :
                              m \in lons \cap ((0 - 180)..179) }
                          \X (lats \cap GridLats) : TRUE }
             at(p) == CHOOSE c \in cells : GridPosition(c[1], c[2]) = p
             order == Ascending({ GridPosition(c[1], c[2]) : c \in cells })
         IN  [k \in 1..Len(order) |->
                GridAurora(chunk.v, at(order[k])[1], at(order[k])[2])]

RECURSIVE Matches(_, _, _)
Matches(cs, lats, lons) ==
    IF cs = <<>> THEN <<>>
    ELSE MatchesIn(Head(cs), lats, lons) \o Matches(Tail(cs), lats, lons)

\* get_four_closest(lat, lon) on the stored coordinates cs
get_four_closest(cs, lat, lon) ==
    LET lat1 == py_round(lat)
        lat2 == py_round(lat + 10)
        lon1 == py_round(lon)
        lon2 == py_round(lon + 10)
        ret == Matches(cs, {lat1, lat2}, {lon1, lon2})
    IN  IF Len(ret) # 4 THEN [err |-> "AssertionError", val |-> ret]
        ELSE [err |-> "", val |-> ret]

RECURSIVE Sum(_)
Sum(a) == IF a = <<>> THEN 0 ELSE Head(a) + Sum(Tail(a))

\* sum(...) / 4.0, in hundredths
estimated(four) == (Sum(four) * 100) \div 4

-----------------------------------------------------------------------------
(* The Ovation feed as a state machine *)

\* the four samples of the documented example, as served (longitudes 0..359)
ExampleCoordinates ==
    [kind |-> "list", v |-> 0,
     samples |-> << <<256, 44, 10>>, <<256, 45, 20>>,
                    <<257, 44, 30>>, <<257, 45, 40>> >>]

\* the payloads the server may answer with at time t
OvServed(t) ==
    { [ObservationTime |-> TimeTag(t - Period), ForecastTime |-> TimeTag(t),
       coordinates |-> c] :
        c \in {ExampleCoordinates,
               [kind |-> "grid", v |-> t \div ClockStep, samples |-> <<>>]} }

OvNetOutcomes(t) ==
    { [ok |-> TRUE, err |-> "", json |-> p] : p \in OvServed(t) }
    \cup { [ok |-> FALSE, err |-> e, json |-> <<>>] :
             e \in {"ConnectionError", "DownloadError"} }

OvNetIfStale ==
    IF needs_update(mtime, now) THEN OvNetOutcomes(now) ELSE {NoNet}

\* the points asked about, (lat, lon) in tenths of a degree
QueryLats == {445, 442, 15, 0, 900, 0 - 900}
QueryLons == {0 - 1039, 0 - 1800, 1795, 3}

NoReading == [op |-> "none", lat |-> 0, lon |-> 0, kind |-> "none",
              err |-> "", val |-> <<>>, est |-> 0]
NoOvation == [obs_time |-> -1, fx_time |-> -1, coords |-> <<>>]

seriesVars == <<times, estimated_kps, kps, result, fileAt, origins, attempts>>

\* after NOAA_Ovation(): no cache file existed
InitOvation ==
    /\ now = StartNow
    /\ mtime = 0
    /\ file = None
    /\ data = None
    /\ ovation = NoOvation
    /\ reading = NoReading
    /\ times = <<>>
    /\ estimated_kps = <<>>
    /\ kps = <<>>
    /\ result = NoResult
    /\ fileAt = -1
    /\ origins = <<>>
    /\ attempts = <<>>
    /\ IdleNight /\ IdleAurora

OvTick ==
    /\ now < StartNow + MaxTicks * ClockStep
    /\ now' = now + ClockStep
    /\ UNCHANGED <<mtime, file, data, ovation, reading, seriesVars, clock,
                   window, aurora>>

OvAfterLazyGet(g) ==
    /\ mtime' = g.mtime
    /\ file' = g.file
    /\ data' = g.data
    /\ ovation' = g.ovation
    /\ UNCHANGED <<now, seriesVars, clock, window, aurora>>

\* the obs_time property
ObsTime ==
    \E net \in OvNetIfStale :
        LET g == ov_lazy_get(net)
        IN  /\ OvAfterLazyGet(g)
            /\ reading' =
                 IF g.err # ""
                 THEN [NoReading EXCEPT !.op = "obs_time", !.kind = "raise",
                                        !.err = g.err]
                 ELSE [NoReading EXCEPT !.op = "obs_time", !.kind = "value",
                                        !.val = <<g.ovation.obs_time>>]

\* the outcome of get_four_closest (op) or estimated on the state g
OvOutcome(g, op, lat, lon) ==
    LET base == [NoReading EXCEPT !.op = op, !.lat = lat, !.lon = lon]
        four == get_four_closest(g.ovation.coords, lat, lon)
    IN  IF g.err # "" THEN [base EXCEPT !.kind = "raise", !.err = g.err]
        ELSE IF four.err # ""
        THEN [base EXCEPT !.kind = "raise", !.err = four.err, !.val = four.val]
        ELSE [base EXCEPT !.kind = "value", !.val = four.val,
                          !.est = IF op = "estimated" THEN estimated(four.val)
                                  ELSE 0]

\* get_four_closest(lat, lon)
GetFourClosest ==
    \E lat \in QueryLats, lon \in QueryLons, net \in OvNetIfStale :
        LET g == ov_lazy_get(net)
        IN  /\ OvAfterLazyGet(g)
            /\ reading' = OvOutcome(g, "get_four_closest", lat, lon)

\* estimated(lat, lon)
Estimated ==
    \E lat \in QueryLats, lon \in QueryLons, net \in OvNetIfStale :
        LET g == ov_lazy_get(net)
        IN  /\ OvAfterLazyGet(g)
            /\ reading' = OvOutcome(g, "estimated", lat, lon)

\* the process ends and a new one constructs the feed on the same cache file
OvRestart ==
    /\ data' = None
    /\ ovation' = NoOvation
    /\ reading' = NoReading
    /\ UNCHANGED <<now, mtime, file, seriesVars, clock, window, aurora>>

NextOvation == OvTick \/ ObsTime \/ GetFourClosest \/ Estimated \/ OvRestart

SpecOvation == InitOvation /\ [][NextOvation]_vars

\* the stored intensities at the four whole-degree corners around (lat, lon)
Corners(lat, lon) ==
    Matches(ovation.coords, {lat \div 10, (lat \div 10) + 1},
            {lon \div 10, (lon \div 10) + 1})

IsLookup(r) == r.op \in {"get_four_closest", "estimated"}

\* C5: when the stored grid holds the four whole-degree corner samples around
\* the query point, get_four_closest returns those four intensities in
\* storage order and estimated returns their mean; with the samples
\* (-104,44,10), (-104,45,20), (-103,44,30), (-103,45,40) and the point
\* (44.5, -103.9) they are 10, 20, 30, 40 and 25.0.
C5_FourCorners ==
    (/\ IsLookup(reading)
     /\ reading.err \notin NetworkErrors
     /\ Len(Corners(reading.lat, reading.lon)) = 4)
    => /\ reading.kind = "value"
       /\ reading.val = Corners(reading.lat, reading.lon)
       /\ reading.op = "estimated" =>
              reading.est = 25 * Sum(Corners(reading.lat, reading.lon))
       /\ (/\ ovation.coords = <<normalized(ExampleCoordinates)>>
           /\ reading.lat = 445 /\ reading.lon = 0 - 1039)
          => /\ reading.val = <<10, 20, 30, 40>>
             /\ reading.op = "estimated" => reading.est = 2500

\* C6: on a stored well-formed 1-degree grid, whatever the number of
\* refreshes, every lookup at a valid point finds exactly four samples.
C6_AlwaysFour ==
    (/\ IsLookup(reading)
     /\ reading.err \notin NetworkErrors
     /\ ovation.coords # <<>>
     /\ \A k \in 1..Len(ovation.coords) : ovation.coords[k].kind = "grid"
     /\ reading.lat \in (0 - 900)..900
     /\ reading.lon \in (0 - 1800)..1799)
    => /\ reading.kind = "value"
       /\ Len(reading.val) = 4

====
